---- MODULE Spec2Model ----
(***************************************************************************)
(* State-machine model of the phone-farm device engine:                    *)
(*   - core/device_manager.py : DeviceManager (registry, scan, connect)    *)
(*   - core/batch_adb.py      : BatchADB (batched bridge commands)         *)
(***************************************************************************)
EXTENDS Integers, Sequences, FiniteSets, Bags, TLC

(***************************************************************************)
(* Bounds of the model                                                     *)
(***************************************************************************)
MaxLines == 2        \* device lines printed by one `adb devices -l`
MaxTasks == 1        \* connect_device / ensure_u2_connection coroutines alive at once
MaxWorkers == 2      \* largest max_workers a BatchADB is built with
MaxBatch == 2        \* longest list of serials passed to a batch call
NumProps == 5        \* entries of prop_commands in get_device_properties_batch
MaxCount == 101      \* most authorized devices a connection plan is computed for
MaxOverride == 26    \* largest batch_size a caller passes explicitly
MaxPackages == 3     \* packages on the device of a removal
MaxApks == 2         \* APK files of an installation (split APKs)

\* serials of the farm's devices: A goes through every bridge state, B is a
\* phone whose debugging prompt is never accepted
Serials == {"A", "B"}

(***************************************************************************)
(* Values                                                                  *)
(***************************************************************************)
None == 0                                   \* Python None for u2_device
Unknown == <<"Unknown">>                    \* Device.model / android_version default
BridgeStates == {"device", "unauthorized", "offline"}   \* second column of `adb devices`
ModelHints == {<<>>, <<"P", "_", "7">>}     \* text after "model:" on a line (<<>>: no model: field)
Versions == {<<"13">>}                      \* info['version'] values of the probe
NoDevice == [status |-> "absent"]           \* serial not a key of self.devices
NoEntry == [model |-> <<>>]                 \* serial not a key of the cache file

\* Device(serial, model, android_version, status, u2_device)
Device(model, android_version, status, u2_device) ==
    [model |-> model, android_version |-> android_version,
     status |-> status, u2_device |-> u2_device]

VARIABLES
    devices,     \* DeviceManager.devices : serial -> Device | NoDevice
    cache_file,  \* data/device_cache.json : serial -> {model, android_version} | NoEntry
    task,        \* bag of the connect_device / ensure_u2_connection coroutines in flight
    last,        \* the last step taken: operation, argument, return value
    max_workers, \* BatchADB.executor: size of the thread pool
    call,        \* the batch call in progress: kind, devices, state
    coro,        \* run_single / get_props coroutine of each position of devices
    queue,       \* work queue of the executor: positions whose job waits for a thread
    abandoned,   \* jobs of this call still on a thread after their coroutine was cancelled
    orphans,     \* such jobs left behind by earlier calls
    results,     \* the mapping the call returned
    plan,        \* batch size and waves connect_all_devices computes for a device count
    conn,        \* the connect_all_devices call in progress
    wave,        \* the connect_device tasks of the wave being gathered
    fast_scan,   \* FastStartup.parallel_device_scan: the bridge's output, the list returned
    remover,     \* BloatwareRemover: the packages on the device, the results of a removal
    installer    \* LocalAPKInstaller.install_app_on_devices: its tasks and their processes

registry == <<devices, cache_file, task, last>>
batch == <<max_workers, call, coro, queue, abandoned, orphans, results>>
orchestra == <<plan, conn, wave>>
tools == <<fast_scan, remover, installer>>
vars == <<devices, cache_file, task, last,
          max_workers, call, coro, queue, abandoned, orphans, results,
          plan, conn, wave, fast_scan, remover, installer>>

Known(devs) == {s \in Serials : devs[s] # NoDevice}

(***************************************************************************)
(* str.replace("_", " ") on the model token                                *)
(***************************************************************************)
ReplaceUnderscore(str) ==
    [i \in 1..Len(str) |-> IF str[i] = "_" THEN " " ELSE str[i]]

\* scan_devices: model = "Unknown" unless the line has a model: field
LineModel(line) ==
    IF line.model = <<>> THEN Unknown ELSE ReplaceUnderscore(line.model)

(***************************************************************************)
(* Lines of `adb devices -l` after the header.  fields = number of         *)
(* whitespace-separated parts; a line with fewer than two is skipped.      *)
(***************************************************************************)
\* `adb devices -l` prints the model: field for a device in state "device"
\* and leaves it out for one that is unauthorized or offline
StateModelHints(status) == IF status = "device" THEN ModelHints \ {<<>>} ELSE {<<>>}
SerialStates(serial) == IF serial = "A" THEN BridgeStates ELSE {"unauthorized"}
FullLines ==
    {line \in [fields : {2}, serial : Serials, status : BridgeStates, model : ModelHints] :
        /\ line.status \in SerialStates(line.serial)
        /\ line.model \in StateModelHints(line.status)}
ShortLines == [fields : {1}, serial : {"A"}, status : {"device"}, model : {<<>>}]
Lines == FullLines \cup ShortLines
\* the bridge lists every attached serial on one line; the serials are
\* ordered here so that each set of lines is one output
SerialRank(serial) == IF serial = "A" THEN 1 ELSE 2
OneLinePerSerial(lines) ==
    \A i, j \in 1..Len(lines) :
        (i < j /\ lines[i].fields >= 2 /\ lines[j].fields >= 2)
            => SerialRank(lines[i].serial) < SerialRank(lines[j].serial)
Enumerations ==
    {lines \in UNION {[1..n -> Lines] : n \in 0..MaxLines} : OneLinePerSerial(lines)}

\* currently_plugged_serials after the loop over the lines
PluggedSerials(lines) ==
    {lines[i].serial : i \in {j \in 1..Len(lines) : lines[j].fields >= 2}}

\* MergeLine with the status of a known device overwritten on every rescan
MergeLineOverwrite(devs, line) ==
    IF line.fields < 2 THEN devs
    ELSE IF devs[line.serial] = NoDevice
    THEN [devs EXCEPT ![line.serial] = Device(LineModel(line), Unknown, line.status, None)]
    ELSE [devs EXCEPT ![line.serial].status = line.status]

\* body of the loop over the lines for one line
MergeLine(devs, line) ==
    IF line.fields < 2 THEN devs
    ELSE LET serial == line.serial
             status == line.status
             model == LineModel(line)
             existing_device == devs[serial]
         IN  IF existing_device = NoDevice
             THEN [devs EXCEPT ![serial] = Device(model, Unknown, status, None)]
             ELSE IF existing_device.status = "disconnected"
             THEN [devs EXCEPT ![serial].status = status, ![serial].model = model]
             ELSE IF existing_device.status # "connected"
             THEN [devs EXCEPT ![serial].status = status]
             ELSE devs

RECURSIVE MergeLines(_, _, _)
\* MergeLines that skips a serial whose record is disconnected
MergeLinesSkipDisconnected(devs, lines, i) ==
    IF i > Len(lines) THEN devs
    ELSE IF /\ lines[i].fields >= 2
            /\ devs[lines[i].serial] # NoDevice
            /\ devs[lines[i].serial].status = "disconnected"
         THEN MergeLines(devs, lines, i + 1)
         ELSE MergeLines(MergeLine(devs, lines[i]), lines, i + 1)

MergeLines(devs, lines, i) ==
    IF i > Len(lines) THEN devs
    ELSE MergeLines(MergeLine(devs, lines[i]), lines, i + 1)

\* second loop: a device missing from the enumeration is disconnected
IsMissed(devs, plugged, s) ==
    devs[s] # NoDevice /\ s \notin plugged /\ devs[s].status # "disconnected"

\* MarkDisconnected without `device.u2_device = None`
MarkDisconnectedKeepHandle(devs, plugged) ==
    [s \in Serials |->
        IF IsMissed(devs, plugged, s)
        THEN [devs[s] EXCEPT !.status = "disconnected"]
        ELSE devs[s]]

MarkDisconnected(devs, plugged) ==
    [s \in Serials |->
        IF IsMissed(devs, plugged, s)
        THEN [devs[s] EXCEPT !.status = "disconnected", !.u2_device = None]
        ELSE devs[s]]

\* ScanResult that forgets every serial the enumeration did not list
ScanResultPluggedOnly(devs, lines) ==
    [s \in Serials |->
        IF s \in PluggedSerials(lines) THEN MergeLines(devs, lines, 1)[s] ELSE NoDevice]

ScanResult(devs, lines) ==
    MarkDisconnected(MergeLines(devs, lines, 1), PluggedSerials(lines))

(***************************************************************************)
(* Cache file                                                              *)
(***************************************************************************)
\* _save_device_cache: the whole file is rewritten from self.devices
SavedCache(devs) ==
    [s \in Serials |->
        IF devs[s] = NoDevice THEN NoEntry
        ELSE [model |-> devs[s].model, android_version |-> devs[s].android_version]]

\* LoadedDevices that ignores the cached android_version
LoadedDevicesNoVersion(cache) ==
    [s \in Serials |->
        IF cache[s] = NoEntry THEN NoDevice
        ELSE Device(cache[s].model, Unknown, "disconnected", None)]

\* _load_device_cache: one disconnected Device per cached serial
LoadedDevices(cache) ==
    [s \in Serials |->
        IF cache[s] = NoEntry THEN NoDevice
        ELSE Device(cache[s].model, cache[s].android_version, "disconnected", None)]

CacheEntries == {[model |-> <<"P", " ", "7">>, android_version |-> <<"13">>]}
InitCaches == [Serials -> {NoEntry} \cup CacheEntries]

\* a coroutine suspended at an await: op is its function, pc the call awaited
Coroutine(op, pc, serial) == [op |-> op, pc |-> pc, serial |-> serial]
Suspended(op, pc) == {r \in BagToSet(task) : r.op = op /\ r.pc = pc}

\* record of one step: step is the place in the operation's code that ran
\* ("call" up to the first await), ret its return value ("await" if it has
\* not returned), plugged the serials the scan enumerated, connected the
\* serials whose status was connected before the step
Op(op, step, serial, ret, plugged) ==
    [op |-> op, step |-> step, serial |-> serial, ret |-> ret, plugged |-> plugged,
     connected |-> IF op = "scan_devices"
                   THEN {s \in Serials : devices[s].status = "connected"}
                   ELSE {}]

NoCall == [kind |-> "none", devices |-> <<>>, state |-> "idle"]
NoResults == <<>>

\* BatchADB.__init__(max_workers): nothing submitted, no call made
InitBatchADB ==
    /\ call = NoCall
    /\ coro = <<>>
    /\ queue = <<>>
    /\ abandoned = 0
    /\ orphans = 0
    /\ results = NoResults

\* no plan computed, no connect_all_devices call made
NoPlan == [state |-> "none"]
NoConn == [state |-> "idle"]
InitOrchestrator ==
    /\ plan = NoPlan
    /\ conn = NoConn
    /\ wave = <<>>

\* no fast scan made, no removal run, no installation started
NoScan == [state |-> "none"]
NoRemoval == [state |-> "none"]
NoInstall == [state |-> "none"]
InitTools ==
    /\ fast_scan = NoScan
    /\ remover = NoRemoval
    /\ installer = NoInstall

\* DeviceManager.__init__ with one of the cache files caches on disk
InitDeviceManager(caches) ==
    /\ cache_file \in caches
    /\ devices = LoadedDevices(cache_file)
    /\ task = EmptyBag
    /\ last = [op |-> "init", step |-> "call", serial |-> "", ret |-> "None",
               plugged |-> {}, connected |-> {}]

Init ==
    /\ max_workers = MaxWorkers
    /\ InitBatchADB
    /\ InitTools
    /\ InitOrchestrator
    /\ InitDeviceManager(InitCaches)

(***************************************************************************)
(* subprocess.run(cmd, popenargs.., timeout=.., kwargs..) as the callers   *)
(* use it.  popenargs are the positional arguments after the command: Popen *)
(* takes the first of them as bufsize and raises TypeError unless it is an *)
(* int, before any process is started.  adb is what the adb process        *)
(* does once started: "missing" (no binary), "hang", or "exit" with a      *)
(* return code.                                                            *)
(***************************************************************************)
Completed(returncode, stdout) ==
    [kind |-> "completed", returncode |-> returncode, stdout |-> stdout, spawned |-> TRUE]
Raised(exc, spawned) ==
    [kind |-> exc, returncode |-> -1, stdout |-> <<>>, spawned |-> spawned]

subprocess_run(popenargs, timeout, adb) ==
    IF Len(popenargs) >= 1 /\ popenargs[1] # "int"
    THEN Raised("TypeError", FALSE)
    ELSE IF adb.kind = "missing"
    THEN Raised("FileNotFoundError", FALSE)
    ELSE IF adb.kind = "hang"
    THEN IF timeout # None THEN Raised("TimeoutExpired", TRUE)
         ELSE [kind |-> "blocked", returncode |-> -1, stdout |-> <<>>, spawned |-> TRUE]
    ELSE Completed(adb.returncode, adb.stdout)

Exit(returncode, stdout) == [kind |-> "exit", returncode |-> returncode, stdout |-> stdout]
Hang == [kind |-> "hang", returncode |-> -1, stdout |-> <<>>]
Missing == [kind |-> "missing", returncode |-> -1, stdout |-> <<>>]

\* what the bridge can do with ["adb", "devices", "-l"]
\* (Exit(1, <<>>): the command fails and prints no device line)
DevicesBridge == {Hang, Missing, Exit(1, <<>>)} \cup {Exit(0, lines) : lines \in Enumerations}
\* what the bridge can do with [..., "shell", "getprop", "ro.product.model"]
GetpropBridge == {Hang, Missing, Exit(1, <<>>), Exit(0, <<"P", "_", "7">>)}

(***************************************************************************)
(* scan_devices: no await inside, so one atomic step.  Either a bridge     *)
(* call raises (missing binary, timeout) and [] is returned, or the lines  *)
(* are merged into the registry; result.returncode is not looked at, and   *)
(* the step is recorded as "exit_error" when it is not 0.                  *)
(***************************************************************************)
ScanDevices ==
    /\ UNCHANGED batch
    /\ UNCHANGED tools
    /\ UNCHANGED orchestra
    /\ \E adb \in DevicesBridge :
        LET result == subprocess_run(<<>>, 10, adb)
        IN  IF result.kind # "completed"
            THEN /\ last' = Op("scan_devices", "call", "", "[]", {})
                 /\ UNCHANGED <<devices, cache_file, task>>
            ELSE /\ devices' = ScanResult(devices, result.stdout)
                 /\ last' = Op("scan_devices",
                               IF result.returncode = 0 THEN "call" ELSE "exit_error",
                               "", "list", PluggedSerials(result.stdout))
                 /\ UNCHANGED <<cache_file, task>>

(***************************************************************************)
(* connect_device(device, skip_u2)                                         *)
(***************************************************************************)
\* Connectable with only the first of the two checks
ConnectableNotUnauthorized(status) == status # "unauthorized"

\* the two status checks that open connect_device
Connectable(status) == status # "unauthorized" /\ status = "device"

\* `not device.model or device.model == "Unknown"`
ModelMissing(model) == model = <<>> \/ model = Unknown

\* the caller may start another coroutine
CanCall == BagCardinality(task) < MaxTasks
\* a new coroutine suspends at its first await
Await(op, pc, s) == task' = task (+) SetToBag({Coroutine(op, pc, s)})
\* coroutine r moves on to its next await
Resume(r, pc) == task' = (task (-) SetToBag({r})) (+) SetToBag({Coroutine(r.op, pc, r.serial)})
\* coroutine r returns
Return(r) == task' = task (-) SetToBag({r})

\* the call up to its first await or return
ConnectDevice(s, skip_u2) ==
    /\ UNCHANGED batch
    /\ UNCHANGED tools
    /\ UNCHANGED orchestra
    /\ CanCall
    /\ devices[s] # NoDevice
    /\ IF ~Connectable(devices[s].status)
       THEN /\ last' = Op("connect_device", "call", s, "False", {})
            /\ UNCHANGED <<devices, cache_file, task>>
       ELSE IF skip_u2
       THEN /\ devices' = [devices EXCEPT ![s].status = "connected"]
            /\ IF ModelMissing(devices[s].model)
               THEN /\ Await("connect_device", "getprop", s)
                    /\ last' = Op("connect_device", "call", s, "await", {})
               ELSE /\ last' = Op("connect_device", "call", s, "True", {})
                    /\ UNCHANGED task
            /\ UNCHANGED cache_file
       ELSE /\ Await("connect_device", "u2_connect", s)
            /\ last' = Op("connect_device", "call", s, "await", {})
            /\ UNCHANGED <<devices, cache_file>>

\* fast mode: the getprop call run in the default executor comes back
FastGetprop(r) ==
    /\ UNCHANGED batch
    /\ UNCHANGED tools
    /\ UNCHANGED orchestra
    /\ r \in Suspended("connect_device", "getprop")
    /\ \E adb \in GetpropBridge :
        LET s == r.serial
            result == subprocess_run(<<"dict">>, None, adb)
        IN  /\ result.kind # "blocked"
            /\ devices' = IF result.kind = "completed" /\ result.returncode = 0
                          THEN [devices EXCEPT ![s].model = ReplaceUnderscore(result.stdout)]
                          ELSE devices
            /\ Return(r)
            /\ last' = Op("connect_device", "getprop", s, "True", {})
            /\ UNCHANGED cache_file

\* u2.connect returns a new session object, never the one the device holds
NewSession(u2_device) == IF u2_device = 1 THEN 2 ELSE 1

\* ConnectFailed without `device.status = "error"`
ConnectFailedKeepsStatus(devs, s) == devs

\* except Exception: device.status = "error"; return False
ConnectFailed(devs, s) == [devs EXCEPT ![s].status = "error"]

\* full mode: u2.connect(serial) comes back with a session, or raises
U2Connect(r) ==
    /\ UNCHANGED batch
    /\ UNCHANGED tools
    /\ UNCHANGED orchestra
    /\ r \in Suspended("connect_device", "u2_connect")
    /\ LET s == r.serial
       IN  \/ /\ devices' = [devices EXCEPT ![s].u2_device = NewSession(devices[s].u2_device)]
              /\ Resume(r, "info")
              /\ last' = Op("connect_device", "u2_connect", s, "await", {})
              /\ UNCHANGED cache_file
           \/ /\ devices' = ConnectFailed(devices, s)
              /\ Return(r)
              /\ last' = Op("connect_device", "u2_connect", s, "False", {})
              /\ UNCHANGED cache_file

\* state of the device once the info probe has answered
Probed(devs, s, version) ==
    [devs EXCEPT ![s].android_version = version, ![s].status = "connected"]

\* full mode: the device.u2_device.info probe comes back, or raises
U2Info(r) ==
    /\ UNCHANGED batch
    /\ UNCHANGED tools
    /\ UNCHANGED orchestra
    /\ r \in Suspended("connect_device", "info")
    /\ LET s == r.serial
       IN  \/ \E version \in Versions :
                /\ devices' = Probed(devices, s, version)
                /\ cache_file' = SavedCache(devices')
                /\ Return(r)
                /\ last' = Op("connect_device", "info", s, "True", {})
           \/ /\ devices' = ConnectFailed(devices, s)
              /\ Return(r)
              /\ last' = Op("connect_device", "info", s, "False", {})
              /\ UNCHANGED cache_file

(***************************************************************************)
(* ensure_u2_connection(device)                                            *)
(***************************************************************************)
\* offered for the devices of get_connected_devices; nothing in the
\* repository calls it
EnsureU2Connection(s) ==
    /\ UNCHANGED batch
    /\ UNCHANGED tools
    /\ UNCHANGED orchestra
    /\ CanCall
    /\ devices[s] # NoDevice
    /\ devices[s].status = "connected"
    /\ IF devices[s].u2_device # None
       THEN /\ last' = Op("ensure_u2_connection", "call", s, "True", {})
            /\ UNCHANGED task
       ELSE /\ Await("ensure_u2_connection", "u2_connect", s)
            /\ last' = Op("ensure_u2_connection", "call", s, "await", {})
    /\ UNCHANGED <<devices, cache_file>>

EnsureU2Connect(r) ==
    /\ UNCHANGED batch
    /\ UNCHANGED tools
    /\ UNCHANGED orchestra
    /\ r \in Suspended("ensure_u2_connection", "u2_connect")
    /\ LET s == r.serial
       IN  \/ /\ devices' = [devices EXCEPT ![s].u2_device = NewSession(devices[s].u2_device)]
              /\ Resume(r, "info")
              /\ last' = Op("ensure_u2_connection", "u2_connect", s, "await", {})
              /\ UNCHANGED cache_file
           \/ /\ Return(r)
              /\ last' = Op("ensure_u2_connection", "u2_connect", s, "False", {})
              /\ UNCHANGED <<devices, cache_file>>

EnsureU2Info(r) ==
    /\ UNCHANGED batch
    /\ UNCHANGED tools
    /\ UNCHANGED orchestra
    /\ r \in Suspended("ensure_u2_connection", "info")
    /\ LET s == r.serial
       IN  \/ \E version \in Versions :
                /\ devices' = [devices EXCEPT ![s].android_version = version]
                /\ Return(r)
                /\ last' = Op("ensure_u2_connection", "info", s, "True", {})
                /\ UNCHANGED cache_file
           \/ /\ Return(r)
              /\ last' = Op("ensure_u2_connection", "info", s, "False", {})
              /\ UNCHANGED <<devices, cache_file>>

Coroutines ==
    [op : {"connect_device", "ensure_u2_connection"},
     pc : {"getprop", "u2_connect", "info"}, serial : Serials]

Next ==
    \/ ScanDevices
    \/ \E s \in Serials, skip_u2 \in BOOLEAN : ConnectDevice(s, skip_u2)
    \/ \E r \in Coroutines : FastGetprop(r)
    \/ \E r \in Coroutines : U2Connect(r)
    \/ \E r \in Coroutines : U2Info(r)
    \/ \E s \in Serials : EnsureU2Connection(s)
    \/ \E r \in Coroutines : EnsureU2Connect(r)
    \/ \E r \in Coroutines : EnsureU2Info(r)

Spec == Init /\ [][Next]_vars

(***************************************************************************)
(* Features: run_complete_setup takes get_connected_devices() and runs     *)
(* configure_device_security on each, whose tasks go through               *)
(* _execute_shell.  No call of ensure_u2_connection stands in between.     *)
(***************************************************************************)
\* _execute_shell(device, command): the shell output with a handle (a
\* failing command gives ""), an exception without one
ExecuteShell(s) ==
    /\ UNCHANGED batch
    /\ UNCHANGED tools
    /\ UNCHANGED orchestra
    /\ devices[s] # NoDevice
    /\ devices[s].status = "connected"
    /\ last' = Op("_execute_shell", "call", s,
                  IF devices[s].u2_device # None THEN "output" ELSE "raise", {})
    /\ UNCHANGED <<devices, cache_file, task>>

NextFeatures ==
    \/ Next
    \/ \E s \in Serials : ExecuteShell(s)

SpecFeatures == Init /\ [][NextFeatures]_vars

(***************************************************************************)
(* BatchADB: run_command_batch and get_device_properties_batch             *)
(***************************************************************************)
\* what the bridge does with the command of a call on one device
BridgeBehaviours == {"exit0", "exit1", "hang", "missing"}
BridgeOf(behaviour) ==
    IF behaviour = "exit0" THEN Exit(0, <<>>)
    ELSE IF behaviour = "exit1" THEN Exit(1, <<>>)
    ELSE IF behaviour = "hang" THEN Hang
    ELSE Missing

DeviceLists == UNION {[1..n -> Serials] : n \in 0..MaxBatch}
Positions == 1..Len(call.devices)

NoResult == [kind |-> "none", returncode |-> -1, stdout |-> <<>>, spawned |-> FALSE]
NoEntry2 == [props |-> {}]

\* a coroutine of gather: pc is created / awaiting / returned / cancelled,
\* prop the index of the prop_commands entry being read (0 in run_single),
\* job the state of its executor job, adb what the bridge does with the
\* command run_single invoked, result what the job came back with, entry
\* the second half of the tuple it returned
Created == [pc |-> "created", prop |-> 0, job |-> "none", adb |-> "none",
            result |-> NoResult, entry |-> NoEntry2]

\* Caught with only the `except subprocess.TimeoutExpired` handler
CaughtTimeoutOnly(exc) == exc = "TimeoutExpired"

\* the handlers of run_single: `except subprocess.TimeoutExpired`, then
\* `except Exception`, which takes every exception subprocess.run raises
Caught(exc) ==
    \/ exc = "TimeoutExpired"
    \/ exc \in {"TypeError", "FileNotFoundError", "TimeoutExpired"}

\* "success": result.returncode == 0, and False in both except branches
EntrySuccess(result) == result.kind = "completed" /\ result.returncode = 0

\* the dict run_single returns: error is "" and returncode -1 where the key
\* is not set, timeout is the "timeout": True key
Entry(result) ==
    IF result.kind = "completed"
    THEN [success |-> EntrySuccess(result), returncode |-> result.returncode,
          error |-> "", timeout |-> FALSE]
    ELSE IF result.kind = "TimeoutExpired"
    THEN [success |-> EntrySuccess(result), returncode |-> -1,
          error |-> "Command timed out", timeout |-> TRUE]
    ELSE [success |-> EntrySuccess(result), returncode |-> -1,
          error |-> result.kind, timeout |-> FALSE]

\* props after one prop command came back: set on return code 0 only
PropsAfter(props, prop, result) ==
    IF result.kind = "completed" /\ result.returncode = 0
    THEN props \cup {prop} ELSE props

\* jobs a thread of the pool is running
RunningJobs == {i \in Positions : coro[i].job = "running"}
Invocations == Cardinality(RunningJobs) + abandoned + orphans

\* WorkerAvailable with one thread per submitted job
WorkerAlwaysAvailable == TRUE

\* ThreadPoolExecutor(max_workers): a job starts only on a free thread
WorkerAvailable == Invocations < max_workers

\* DictOf without the tuples of the devices that failed
DictOfSucceeded(pairs) ==
    LET kept == {i \in 1..Len(pairs) :
                    IF "success" \in DOMAIN pairs[i][2]
                    THEN pairs[i][2].success ELSE pairs[i][2].props # {}}
    IN  [k \in {pairs[i][1] : i \in kept} |->
            pairs[CHOOSE i \in kept : pairs[i][1] = k /\
                \A j \in kept : pairs[j][1] = k => j <= i][2]]

\* dict(results): one key per serial, the last tuple of a serial wins
DictOf(pairs) ==
    [k \in {pairs[i][1] : i \in 1..Len(pairs)} |->
        pairs[CHOOSE i \in 1..Len(pairs) : pairs[i][1] = k /\
            \A j \in 1..Len(pairs) : pairs[j][1] = k => j <= i][2]]

\* the list asyncio.gather returns: the tuples in the order of devices
Gathered == [i \in Positions |-> <<call.devices[i], coro[i].entry>>]

\* the caller awaits run_command_batch(devices, command, timeout) or
\* get_device_properties_batch(devices); gather creates one task per serial
BatchCall(kind, devs) ==
    /\ call.state = "idle"
    /\ call' = [kind |-> kind, devices |-> devs, state |-> "running"]
    /\ coro' = [i \in 1..Len(devs) |-> Created]
    /\ results' = NoResults
    /\ UNCHANGED <<max_workers, queue, abandoned, orphans>>
    /\ UNCHANGED registry
    /\ UNCHANGED tools
    /\ UNCHANGED orchestra

FirstProp == IF call.kind = "get_device_properties_batch" THEN 1 ELSE 0

\* the event loop starts the tasks in the order gather created them; each
\* runs to its first await: run_in_executor submits the job
CoroutineStart(i) ==
    /\ call.state = "running"
    /\ i \in Positions
    /\ coro[i].pc = "created"
    /\ \A j \in 1..(i - 1) : coro[j].pc # "created"
    /\ coro' = [coro EXCEPT ![i].pc = "awaiting", ![i].prop = FirstProp,
                             ![i].job = "queued"]
    /\ queue' = Append(queue, i)
    /\ UNCHANGED <<max_workers, call, abandoned, orphans, results>>
    /\ UNCHANGED registry
    /\ UNCHANGED tools
    /\ UNCHANGED orchestra

\* a pool thread takes the oldest job of the queue
WorkerStart ==
    /\ queue # <<>>
    /\ WorkerAvailable
    /\ coro' = [coro EXCEPT ![Head(queue)].job = "running"]
    /\ queue' = Tail(queue)
    /\ UNCHANGED <<max_workers, call, abandoned, orphans, results>>
    /\ UNCHANGED registry
    /\ UNCHANGED tools
    /\ UNCHANGED orchestra

\* subprocess.run(full_cmd, {"capture_output": .., "text": .., "timeout": ..})
\* comes back on the pool thread: the dict is a positional argument
WorkerFinish(i) ==
    /\ i \in RunningJobs
    /\ \E behaviour \in BridgeBehaviours :
        LET result == subprocess_run(<<"dict">>, None, BridgeOf(behaviour))
        IN  /\ result.kind # "blocked"
            /\ coro' = [coro EXCEPT ![i].job = "finished", ![i].result = result,
                                    ![i].adb = IF call.kind = "run_command_batch"
                                               THEN behaviour ELSE "none"]
    /\ UNCHANGED <<max_workers, call, queue, abandoned, orphans, results>>
    /\ UNCHANGED registry
    /\ UNCHANGED tools
    /\ UNCHANGED orchestra

\* a job whose coroutine is gone ends on its thread; nobody reads the result
AbandonedFinish ==
    /\ \/ abandoned > 0 /\ abandoned' = abandoned - 1 /\ UNCHANGED orphans
       \/ orphans > 0 /\ orphans' = orphans - 1 /\ UNCHANGED abandoned
    /\ UNCHANGED <<max_workers, call, coro, queue, results>>
    /\ UNCHANGED registry
    /\ UNCHANGED tools
    /\ UNCHANGED orchestra

\* get_props goes on to the next prop command, or returns (serial, props)
NextProp(c, props) ==
    IF c.prop < NumProps
    THEN [pc |-> "awaiting", prop |-> c.prop + 1, job |-> "queued", adb |-> "none",
          result |-> NoResult, entry |-> [props |-> props]]
    ELSE [pc |-> "returned", prop |-> c.prop, job |-> "none", adb |-> "none",
          result |-> NoResult, entry |-> [props |-> props]]

\* the coroutine is resumed with the result of its job
CoroutineResume(i) ==
    /\ call.state \in {"running", "cancelling"}
    /\ i \in Positions
    /\ coro[i].pc = "awaiting"
    /\ coro[i].job = "finished"
    /\ IF call.kind = "run_command_batch"
       THEN IF coro[i].result.kind = "completed" \/ Caught(coro[i].result.kind)
            THEN /\ coro' = [coro EXCEPT ![i].pc = "returned", ![i].job = "none",
                                         ![i].entry = Entry(coro[i].result)]
                 /\ UNCHANGED <<call, queue>>
            ELSE \* the exception leaves run_single and gather hands it to the call
                 /\ coro' = [coro EXCEPT ![i].pc = "raised", ![i].job = "none"]
                 /\ call' = [call EXCEPT !.state = "failed"]
                 /\ UNCHANGED queue
       ELSE LET next == NextProp(coro[i],
                            PropsAfter(coro[i].entry.props, coro[i].prop, coro[i].result))
            IN  /\ coro' = [coro EXCEPT ![i] = next]
                /\ queue' = IF next.pc = "awaiting" THEN Append(queue, i) ELSE queue
                /\ UNCHANGED call
    /\ UNCHANGED <<max_workers, abandoned, orphans, results>>
    /\ UNCHANGED registry
    /\ UNCHANGED tools
    /\ UNCHANGED orchestra

\* gather has every tuple: results_dict = dict(results) is returned
GatherReturn ==
    /\ call.state = "running"
    /\ \A i \in Positions : coro[i].pc = "returned"
    /\ results' = DictOf(Gathered)
    /\ call' = [call EXCEPT !.state = "returned"]
    /\ UNCHANGED <<max_workers, coro, queue, abandoned, orphans>>
    /\ UNCHANGED registry
    /\ UNCHANGED tools
    /\ UNCHANGED orchestra

\* CancelledError thrown into a coroutine: run_single's `except Exception`
\* lets it through; the bare `except:` of get_props swallows it at the await
\* and the loop goes on with the next prop command.  A task that never
\* started is cancelled without running.
Cancelled(c) ==
    IF c.pc \in {"returned", "cancelled"} THEN c
    ELSE IF c.pc = "awaiting" /\ call.kind = "get_device_properties_batch"
    THEN NextProp(c, c.entry.props)
    ELSE [c EXCEPT !.pc = "cancelled", !.job = "none", !.adb = "none", !.result = NoResult]

\* positions whose job sits in the work queue, oldest first
RECURSIVE Without(_, _)
Without(q, gone) ==
    IF q = <<>> THEN <<>>
    ELSE IF Head(q) \in gone THEN Without(Tail(q), gone)
    ELSE <<Head(q)>> \o Without(Tail(q), gone)

RECURSIVE Resubmitted(_, _)
Resubmitted(cs, i) ==
    IF i > Len(cs) THEN <<>>
    ELSE IF cs[i].job = "queued" THEN <<i>> \o Resubmitted(cs, i + 1)
    ELSE Resubmitted(cs, i + 1)

\* the task awaiting the batch call is cancelled: gather cancels every
\* unfinished child.  The future of a queued job is cancelled with it; a job
\* already on a thread cannot be and keeps running.
Cancel ==
    /\ call.state = "running"
    /\ \E i \in Positions : coro[i].pc \in {"created", "awaiting"}
    /\ LET hit == {i \in Positions : coro[i].pc \in {"created", "awaiting"}}
           after == [i \in Positions |-> Cancelled(coro[i])]
       IN  /\ coro' = after
           /\ queue' = Without(queue, hit) \o Resubmitted(after, 1)
           /\ abandoned' = abandoned + Cardinality(hit \cap RunningJobs)
    /\ call' = [call EXCEPT !.state = "cancelling"]
    /\ UNCHANGED <<max_workers, orphans, results>>
    /\ UNCHANGED registry
    /\ UNCHANGED tools
    /\ UNCHANGED orchestra

\* every child is done: the call raises CancelledError to its caller
GatherRaise ==
    /\ call.state = "cancelling"
    /\ \A i \in Positions : coro[i].pc \in {"returned", "cancelled"}
    /\ call' = [call EXCEPT !.state = "raised"]
    /\ UNCHANGED <<max_workers, coro, queue, abandoned, orphans, results>>
    /\ UNCHANGED registry
    /\ UNCHANGED tools
    /\ UNCHANGED orchestra

\* the caller goes on; the executor keeps the jobs still on its threads
CallDone ==
    /\ call.state \in {"returned", "raised", "failed"}
    /\ call' = NoCall
    /\ coro' = <<>>
    /\ results' = NoResults
    /\ orphans' = orphans + abandoned + Cardinality(RunningJobs)
    /\ abandoned' = 0
    /\ queue' = <<>>
    /\ UNCHANGED max_workers
    /\ UNCHANGED registry
    /\ UNCHANGED tools
    /\ UNCHANGED orchestra

InitBatch ==
    /\ max_workers \in 1..MaxWorkers
    /\ InitBatchADB
    /\ InitTools
    /\ InitOrchestrator
    /\ InitDeviceManager({[s \in Serials |-> NoEntry]})

NextBatch ==
    \/ \E kind \in {"run_command_batch", "get_device_properties_batch"},
          devs \in DeviceLists : BatchCall(kind, devs)
    \/ \E i \in 1..MaxBatch : CoroutineStart(i)
    \/ WorkerStart
    \/ \E i \in 1..MaxBatch : WorkerFinish(i)
    \/ AbandonedFinish
    \/ \E i \in 1..MaxBatch : CoroutineResume(i)
    \/ GatherReturn
    \/ Cancel
    \/ GatherRaise
    \/ CallDone

SpecBatch == InitBatch /\ [][NextBatch]_vars

(***************************************************************************)
(* connect_all_devices: batch size and waves for device_count authorized   *)
(* devices                                                                 *)
(***************************************************************************)
\* config/farm_settings.py: PERFORMANCE
batch_sizes == [small |-> 10, medium |-> 25, large |-> 50, xlarge |-> 75]
max_concurrent_connections == 50

Min(a, b) == IF a < b THEN a ELSE b

\* BatchSize with the thresholds compared by < instead of <=
BatchSizeStrict(device_count, batch_size, fast_mode) ==
    IF batch_size # None THEN batch_size
    ELSE LET auto == IF device_count < 10 THEN batch_sizes.small
                     ELSE IF device_count < 50 THEN batch_sizes.medium
                     ELSE IF device_count < 100 THEN batch_sizes.large
                     ELSE batch_sizes.xlarge
         IN  IF fast_mode THEN Min(auto * 2, max_concurrent_connections) ELSE auto

\* batch_size after `if batch_size is None:` (None is 0: no override)
BatchSize(device_count, batch_size, fast_mode) ==
    IF batch_size # None THEN batch_size
    ELSE LET auto == IF device_count <= 10 THEN batch_sizes.small
                     ELSE IF device_count <= 50 THEN batch_sizes.medium
                     ELSE IF device_count <= 100 THEN batch_sizes.large
                     ELSE batch_sizes.xlarge
         IN  IF fast_mode THEN Min(auto * 2, max_concurrent_connections) ELSE auto

\* range(start, stop, step) for step > 0
RECURSIVE Range(_, _, _)
Range(start, stop, step) ==
    IF start >= stop THEN <<>>
    ELSE <<start>> \o Range(start + step, stop, step)

\* Waves with every slice taken batch_size long
WavesUnclipped(device_count, batch_size) ==
    IF batch_size >= device_count
    THEN <<[batch_start |-> 0, batch_end |-> device_count]>>
    ELSE LET starts == Range(0, device_count, batch_size)
         IN  [k \in DOMAIN starts |->
                [batch_start |-> starts[k], batch_end |-> starts[k] + batch_size]]

\* the slices authorized_devices[batch_start:batch_end] gathered one after
\* another: the whole list when batch_size >= device_count
Waves(device_count, batch_size) ==
    IF batch_size >= device_count
    THEN <<[batch_start |-> 0, batch_end |-> device_count]>>
    ELSE LET starts == Range(0, device_count, batch_size)
         IN  [k \in DOMAIN starts |->
                [batch_start |-> starts[k],
                 batch_end |-> Min(starts[k] + batch_size, device_count)]]

\* positions (from 1) of authorized_devices in the slice of a wave
WavePositions(w) == (w.batch_start + 1)..w.batch_end

\* inputs of a plan: device_count authorized devices, batch_size argument
\* (None or an explicit size), fast_mode
InitPlan ==
    /\ max_workers = MaxWorkers
    /\ InitBatchADB
    /\ InitTools
    /\ InitDeviceManager({[s \in Serials |-> NoEntry]})
    /\ conn = NoConn
    /\ wave = <<>>
    /\ plan \in [state : {"input"}, device_count : 1..MaxCount,
                 override : {None} \cup 1..MaxOverride, fast_mode : BOOLEAN]

\* lines 260-319 for the inputs: the batch size, then the waves
PlanWaves ==
    /\ plan.state = "input"
    /\ LET batch_size == BatchSize(plan.device_count, plan.override, plan.fast_mode)
       IN  plan' = [state |-> "planned", device_count |-> plan.device_count,
                    override |-> plan.override, fast_mode |-> plan.fast_mode,
                    batch_size |-> batch_size,
                    waves |-> Waves(plan.device_count, batch_size)]
    /\ UNCHANGED <<conn, wave>>
    /\ UNCHANGED registry
    /\ UNCHANGED batch
    /\ UNCHANGED tools

\* FastStartup.optimize_device_connections(device_count): the returned dict
OptimizeDeviceConnections(device_count) ==
    IF device_count <= 10
    THEN [batch_size |-> device_count, fast_mode |-> TRUE,
          parallel_limit |-> device_count, use_cache |-> FALSE]
    ELSE IF device_count <= 30
    THEN [batch_size |-> 15, fast_mode |-> TRUE, parallel_limit |-> 15, use_cache |-> TRUE]
    ELSE IF device_count <= 50
    THEN [batch_size |-> 25, fast_mode |-> TRUE, parallel_limit |-> 25, use_cache |-> TRUE]
    ELSE IF device_count <= 100
    THEN [batch_size |-> 50, fast_mode |-> TRUE, parallel_limit |-> 50, use_cache |-> TRUE]
    ELSE [batch_size |-> 75, fast_mode |-> TRUE, parallel_limit |-> 75, use_cache |-> TRUE]

\* a call of optimize_device_connections on the device count of the input
OptimizeConnections ==
    /\ plan.state = "input"
    /\ plan' = [state |-> "optimized", device_count |-> plan.device_count,
                override |-> plan.override, fast_mode |-> plan.fast_mode,
                params |-> OptimizeDeviceConnections(plan.device_count)]
    /\ UNCHANGED <<conn, wave>>
    /\ UNCHANGED registry
    /\ UNCHANGED batch
    /\ UNCHANGED tools

NextPlan ==
    \/ PlanWaves
    \/ OptimizeConnections

SpecPlan == InitPlan /\ [][NextPlan]_vars

(***************************************************************************)
(* connect_all_devices(progress_callback, batch_size, fast_mode) on a      *)
(* fleet in which every phone may be authorised                            *)
(***************************************************************************)
FleetLines ==
    {line \in [fields : {2}, serial : Serials, status : BridgeStates, model : ModelHints] :
        line.model \in StateModelHints(line.status)}
FleetEnumerations ==
    {lines \in UNION {[1..n -> FleetLines] : n \in 0..MaxLines} : OneLinePerSerial(lines)}
FleetBridge == {Hang, Missing} \cup {Exit(0, lines) : lines \in FleetEnumerations}

\* batch_size arguments: None (computed from the device count) or explicit
BatchSizeArgs == {None} \cup (1..Cardinality(Serials))

\* [d for d in devices if d.status == "device"], as serials in dict order
RECURSIVE AuthorizedFrom(_, _)
AuthorizedFrom(devs, order) ==
    IF order = <<>> THEN <<>>
    ELSE LET rest == AuthorizedFrom(devs, Tail(order))
         IN  IF devs[Head(order)] # NoDevice /\ devs[Head(order)].status = "device"
             THEN <<Head(order)>> \o rest
             ELSE rest
\* Authorized that leaves out a device still holding a handle
AuthorizedWithoutHandle(devs) ==
    AuthorizedFrom([s \in Serials |->
                        IF devs[s] # NoDevice /\ devs[s].u2_device # None
                        THEN NoDevice ELSE devs[s]], <<"A", "B">>)

Authorized(devs) == AuthorizedFrom(devs, <<"A", "B">>)

\* asyncio.create_task(self.connect_device(device, skip_u2=fast_mode))
CreateTask(serial) == [serial |-> serial, pc |-> "created", ret |-> "none", must_cancel |-> FALSE]
\* tasks = [create_task(...) for device in batch_devices]
CreateTasks(authorized, w) ==
    [i \in 1..(w.batch_end - w.batch_start) |-> CreateTask(authorized[w.batch_start + i])]

TaskDone(t) == t.pc \in {"done", "cancelled"}
TaskAwaiting(t) == t.pc \in {"getprop", "u2_connect", "info"}

\* GatherDone that lets gather return once every task has been started
GatherStarted(tasks) == \A i \in DOMAIN tasks : tasks[i].pc # "created"

\* await asyncio.gather(*tasks, return_exceptions=True) is over when every
\* task has finished
GatherDone(tasks) == \A i \in DOMAIN tasks : TaskDone(tasks[i])

\* Connected counting every result, not only the True ones
ConnectedAny(tasks) == Cardinality({i \in DOMAIN tasks : tasks[i].pc = "done"})

\* sum(1 for r in results if r is True)
Connected(tasks) == Cardinality({i \in DOMAIN tasks : tasks[i].ret = "True"})

\* Progress reporting the wave's own count
ProgressOfWave(progress, callback, total_connected, batch_connected, device_count) ==
    IF callback THEN Append(progress, <<batch_connected, device_count>>) ELSE progress

\* if progress_callback: await progress_callback(total_connected, device_count)
Progress(progress, callback, total_connected, batch_connected, device_count) ==
    IF callback THEN Append(progress, <<total_connected, device_count>>) ELSE progress

\* the call from its first line to the gather of the first wave, or to an
\* early `return 0`; listed is the `devices` list of line 243/245, scanned
\* tells whether line 243 (the scan) ran
Begin(devs, listed, scanned, callback, batch_size, fast_mode) ==
    LET authorized == Authorized(devs)
        device_count == Len(authorized)
        waves == Waves(device_count, BatchSize(device_count, batch_size, fast_mode))
    IN  /\ devices' = devs
        /\ IF listed = {} \/ authorized = <<>>
           THEN /\ conn' = [state |-> "returned", fast_mode |-> fast_mode, callback |-> callback,
                            scanned |-> scanned, authorized |-> authorized, waves |-> <<>>, k |-> 0,
                            total_connected |-> 0, progress |-> <<>>, ret |-> 0,
                            writes |-> 0, attempted |-> <<>>]
                /\ wave' = <<>>
           ELSE /\ conn' = [state |-> "gathering", fast_mode |-> fast_mode, callback |-> callback,
                            scanned |-> scanned, authorized |-> authorized, waves |-> waves, k |-> 1,
                            total_connected |-> 0, progress |-> <<>>, ret |-> None,
                            writes |-> 0,
                            attempted |-> [i \in WavePositions(waves[1]) |-> authorized[i]]]
                /\ wave' = CreateTasks(authorized, waves[1])

ConnectAllDevices(callback, batch_size, fast_mode) ==
    /\ conn.state = "idle"
    /\ \/ /\ Known(devices) = {}          \* if not self.devices: scan_devices()
          /\ \E adb \in FleetBridge :
                LET result == subprocess_run(<<>>, 10, adb)
                IN  IF result.kind # "completed"
                    THEN Begin(devices, {}, TRUE, callback, batch_size, fast_mode)
                    ELSE LET devs == ScanResult(devices, result.stdout)
                         IN  Begin(devs, Known(devs), TRUE, callback, batch_size, fast_mode)
       \/ /\ Known(devices) # {}
          /\ Begin(devices, Known(devices), FALSE, callback, batch_size, fast_mode)
    /\ UNCHANGED <<cache_file, task, last, plan>>
    /\ UNCHANGED batch
    /\ UNCHANGED tools

\* scan_devices run by the caller between two connection passes
ScanFleet ==
    /\ conn.state = "idle"
    /\ \E adb \in FleetBridge :
        LET result == subprocess_run(<<>>, 10, adb)
        IN  devices' = IF result.kind = "completed"
                       THEN ScanResult(devices, result.stdout)
                       ELSE devices
    /\ UNCHANGED <<cache_file, task, last>>
    /\ UNCHANGED orchestra
    /\ UNCHANGED batch
    /\ UNCHANGED tools

\* task i stops at an await
TaskAwait(i, pc) == wave' = [wave EXCEPT ![i].pc = pc]
\* TaskReturn that reports every finished attempt as True
TaskReturnTrue(i, ret) == wave' = [wave EXCEPT ![i].pc = "done", ![i].ret = "True"]

\* task i finishes with the value connect_device returns
TaskReturn(i, ret) == wave' = [wave EXCEPT ![i].pc = "done", ![i].ret = ret]
\* task i may take a step of its own
TaskRuns(i, pc) ==
    /\ conn.state \in {"gathering", "cancelling"}
    /\ i \in DOMAIN wave
    /\ wave[i].pc = pc
    /\ ~wave[i].must_cancel

\* a task's connect_device from its first line to its first await or return
TaskStart(i) ==
    /\ TaskRuns(i, "created")
    /\ LET s == wave[i].serial
       IN  IF ~Connectable(devices[s].status)
           THEN /\ TaskReturn(i, "False")
                /\ UNCHANGED devices
           ELSE IF conn.fast_mode
           THEN /\ devices' = [devices EXCEPT ![s].status = "connected"]
                /\ IF ModelMissing(devices[s].model)
                   THEN TaskAwait(i, "getprop")
                   ELSE TaskReturn(i, "True")
           ELSE /\ TaskAwait(i, "u2_connect")
                /\ UNCHANGED devices
    /\ UNCHANGED <<cache_file, task, last, plan, conn>>
    /\ UNCHANGED batch
    /\ UNCHANGED tools

\* fast mode: the getprop call comes back
TaskGetprop(i) ==
    /\ TaskRuns(i, "getprop")
    /\ \E adb \in GetpropBridge :
        LET s == wave[i].serial
            result == subprocess_run(<<"dict">>, None, adb)
        IN  /\ result.kind # "blocked"
            /\ devices' = IF result.kind = "completed" /\ result.returncode = 0
                          THEN [devices EXCEPT ![s].model = ReplaceUnderscore(result.stdout)]
                          ELSE devices
    /\ TaskReturn(i, "True")
    /\ UNCHANGED <<cache_file, task, last, plan, conn>>
    /\ UNCHANGED batch
    /\ UNCHANGED tools

\* full mode: u2.connect(serial) comes back with a session, or raises
TaskU2Connect(i) ==
    /\ TaskRuns(i, "u2_connect")
    /\ LET s == wave[i].serial
       IN  \/ /\ devices' = [devices EXCEPT ![s].u2_device = NewSession(devices[s].u2_device)]
              /\ TaskAwait(i, "info")
           \/ /\ devices' = ConnectFailed(devices, s)
              /\ TaskReturn(i, "False")
    /\ UNCHANGED <<cache_file, task, last, plan, conn>>
    /\ UNCHANGED batch
    /\ UNCHANGED tools

\* full mode: the info probe comes back and the cache is saved, or it raises
TaskU2Info(i) ==
    /\ TaskRuns(i, "info")
    /\ LET s == wave[i].serial
       IN  \/ \E version \in Versions :
                /\ devices' = Probed(devices, s, version)
                /\ cache_file' = SavedCache(devices')
                /\ conn' = [conn EXCEPT !.writes = @ + 1]
                /\ TaskReturn(i, "True")
           \/ /\ devices' = ConnectFailed(devices, s)
              /\ TaskReturn(i, "False")
              /\ UNCHANGED <<cache_file, conn>>
    /\ UNCHANGED <<task, last, plan>>
    /\ UNCHANGED batch
    /\ UNCHANGED tools

\* the gather of wave k is over: count, report, then gather the next wave
\* or save the cache (fast mode only) and return
WaveDone ==
    /\ conn.state = "gathering"
    /\ GatherDone(wave)
    /\ LET batch_connected == Connected(wave)
           total_connected == conn.total_connected + batch_connected
           device_count == Len(conn.authorized)
           progress == Progress(conn.progress, conn.callback, total_connected,
                                batch_connected, device_count)
       IN  IF conn.k < Len(conn.waves)
           THEN /\ conn' = [conn EXCEPT !.k = @ + 1, !.total_connected = total_connected,
                                        !.progress = progress,
                                        !.attempted = @ \o
                                            [i \in 1..Len(CreateTasks(conn.authorized, conn.waves[conn.k + 1]))
                                                |-> CreateTasks(conn.authorized, conn.waves[conn.k + 1])[i].serial]]
                /\ wave' = CreateTasks(conn.authorized, conn.waves[conn.k + 1])
                /\ UNCHANGED cache_file
           ELSE /\ conn' = [conn EXCEPT !.state = "returned", !.total_connected = total_connected,
                                        !.progress = progress, !.ret = total_connected,
                                        !.writes = IF conn.fast_mode THEN @ + 1 ELSE @]
                /\ cache_file' = IF conn.fast_mode THEN SavedCache(devices) ELSE cache_file
                /\ UNCHANGED wave
    /\ UNCHANGED <<devices, task, last, plan>>
    /\ UNCHANGED batch
    /\ UNCHANGED tools

\* CancelTask that reaches only the tasks suspended at an await
CancelTaskAwaiting(t) == IF TaskAwaiting(t) THEN [t EXCEPT !.must_cancel = TRUE] ELSE t

\* gather's cancel(): task.cancel() on every child that has not finished
CancelTask(t) == IF TaskDone(t) THEN t ELSE [t EXCEPT !.must_cancel = TRUE]

\* the task awaiting connect_all_devices is cancelled during a wave
CancelConnectAll ==
    /\ conn.state = "gathering"
    /\ conn' = [conn EXCEPT !.state = "cancelling"]
    /\ wave' = [i \in DOMAIN wave |-> CancelTask(wave[i])]
    /\ UNCHANGED <<devices, cache_file, task, last, plan>>
    /\ UNCHANGED batch
    /\ UNCHANGED tools

\* CancelledError is thrown into task i where it is suspended: it leaves
\* connect_device (`except Exception` does not take it), but the bare
\* `except:` around the getprop await takes it and the call returns True
TaskUnwind(i) ==
    /\ conn.state = "cancelling"
    /\ i \in DOMAIN wave
    /\ wave[i].must_cancel
    /\ ~TaskDone(wave[i])
    /\ wave' = IF wave[i].pc = "getprop"
               THEN [wave EXCEPT ![i].pc = "done", ![i].ret = "True"]
               ELSE [wave EXCEPT ![i].pc = "cancelled"]
    /\ UNCHANGED <<devices, cache_file, task, last, plan, conn>>
    /\ UNCHANGED batch
    /\ UNCHANGED tools

\* every child is done: gather raises CancelledError, the handler finds no
\* task to cancel and re-raises
ConnectAllRaise ==
    /\ conn.state = "cancelling"
    /\ GatherDone(wave)
    /\ conn' = [conn EXCEPT !.state = "raised"]
    /\ UNCHANGED <<devices, cache_file, task, last, plan, wave>>
    /\ UNCHANGED batch
    /\ UNCHANGED tools

\* the caller has the return value or the CancelledError
ConnectAllDone ==
    /\ conn.state \in {"returned", "raised"}
    /\ conn' = NoConn
    /\ wave' = <<>>
    /\ UNCHANGED <<devices, cache_file, task, last, plan>>
    /\ UNCHANGED batch
    /\ UNCHANGED tools

InitConnectAll ==
    /\ max_workers = MaxWorkers
    /\ InitBatchADB
    /\ InitTools
    /\ InitOrchestrator
    /\ InitDeviceManager(InitCaches)

NextConnectAll ==
    \/ ScanFleet
    \/ \E callback, fast_mode \in BOOLEAN, batch_size \in BatchSizeArgs :
          ConnectAllDevices(callback, batch_size, fast_mode)
    \/ \E i \in 1..Cardinality(Serials) : TaskStart(i)
    \/ \E i \in 1..Cardinality(Serials) : TaskGetprop(i)
    \/ \E i \in 1..Cardinality(Serials) : TaskU2Connect(i)
    \/ \E i \in 1..Cardinality(Serials) : TaskU2Info(i)
    \/ WaveDone
    \/ CancelConnectAll
    \/ \E i \in 1..Cardinality(Serials) : TaskUnwind(i)
    \/ ConnectAllRaise
    \/ ConnectAllDone

SpecConnectAll == InitConnectAll /\ [][NextConnectAll]_vars

(***************************************************************************)
(* Connection attempts from several callers on one registry: a             *)
(* connect_all_devices pass while other code of the application calls      *)
(* connect_device or ensure_u2_connection on the same devices              *)
(***************************************************************************)
\* the registry once the start-up scans have run on a loaded cache
ScannedRegistries(cache) ==
    {ScanResult(ScanResult(LoadedDevices(cache), first), second) :
        first \in FleetEnumerations, second \in FleetEnumerations}

InitAttempts ==
    /\ max_workers = MaxWorkers
    /\ InitBatchADB
    /\ InitTools
    /\ InitOrchestrator
    /\ cache_file = [s \in Serials |-> NoEntry]
    /\ devices \in ScannedRegistries(cache_file)
    /\ task = EmptyBag
    /\ last = [op |-> "init", step |-> "call", serial |-> "", ret |-> "None",
               plugged |-> {}, connected |-> {}]

NextAttempts ==
    \/ \E fast_mode \in BOOLEAN, batch_size \in BatchSizeArgs :
          ConnectAllDevices(FALSE, batch_size, fast_mode)
    \/ \E i \in 1..Cardinality(Serials) : TaskStart(i)
    \/ \E i \in 1..Cardinality(Serials) : TaskGetprop(i)
    \/ \E i \in 1..Cardinality(Serials) : TaskU2Connect(i)
    \/ \E i \in 1..Cardinality(Serials) : TaskU2Info(i)
    \/ WaveDone
    \/ \E s \in Serials, skip_u2 \in BOOLEAN : ConnectDevice(s, skip_u2)
    \/ \E r \in Coroutines : FastGetprop(r)
    \/ \E r \in Coroutines : U2Connect(r)
    \/ \E r \in Coroutines : U2Info(r)
    \/ \E s \in Serials : EnsureU2Connection(s)
    \/ \E r \in Coroutines : EnsureU2Connect(r)
    \/ \E r \in Coroutines : EnsureU2Info(r)

SpecAttempts == InitAttempts /\ [][NextAttempts]_vars

(***************************************************************************)
(* One connect_all_devices pass on a fleet in which a phone may stop       *)
(* answering.  run_in_executor(None, u2.connect, serial) and the info      *)
(* probe are awaited with no timeout and no wait_for; connection_timeout   *)
(* of the settings is read nowhere.  Whether such a call comes back is     *)
(* left to the automation library, so it may also never come back.         *)
(***************************************************************************)
\* full mode: the awaited u2.connect or info call of task i never returns
TaskBlocks(i) ==
    /\ \/ TaskRuns(i, "u2_connect")
       \/ TaskRuns(i, "info")
    /\ wave' = [wave EXCEPT ![i].pc = "blocked"]
    /\ UNCHANGED <<devices, cache_file, task, last, plan, conn>>
    /\ UNCHANGED batch
    /\ UNCHANGED tools

NextUnresponsive ==
    \/ \E fast_mode \in BOOLEAN, batch_size \in BatchSizeArgs :
          ConnectAllDevices(FALSE, batch_size, fast_mode)
    \/ \E i \in 1..Cardinality(Serials) : TaskStart(i)
    \/ \E i \in 1..Cardinality(Serials) : TaskGetprop(i)
    \/ \E i \in 1..Cardinality(Serials) : TaskU2Connect(i)
    \/ \E i \in 1..Cardinality(Serials) : TaskU2Info(i)
    \/ \E i \in 1..Cardinality(Serials) : TaskBlocks(i)
    \/ WaveDone

\* the event loop runs every task that is ready, every executor call that
\* comes back resumes its task, and the gather resumes its caller
FairUnresponsive ==
    /\ \A i \in 1..Cardinality(Serials) :
        /\ WF_vars(TaskStart(i))
        /\ WF_vars(TaskGetprop(i))
        /\ WF_vars(TaskU2Connect(i) \/ TaskBlocks(i))
        /\ WF_vars(TaskU2Info(i) \/ TaskBlocks(i))
    /\ WF_vars(WaveDone)

SpecUnresponsive == InitAttempts /\ [][NextUnresponsive]_vars /\ FairUnresponsive

(***************************************************************************)
(* FastStartup.parallel_device_scan on the output of `adb devices -l`.     *)
(* The id and the state of a line are separated by a tab or by spaces;     *)
(* scan_devices splits on any whitespace, the fast scan looks for a tab.   *)
(***************************************************************************)
Separators == {"tab", "spaces"}
\* a line with its separator written out ("none": a single field)
SeparatedLines ==
    {[fields |-> line.fields, serial |-> line.serial, status |-> line.status,
      model |-> line.model, sep |-> IF line.fields >= 2 THEN sep ELSE "none"] :
        line \in FleetLines \cup ShortLines, sep \in Separators}
ScanOutputs ==
    {lines \in UNION {[1..n -> SeparatedLines] : n \in 0..MaxLines} : OneLinePerSerial(lines)}

\* `if line.strip() and '\t' in line`
HasTab(line) == line.sep = "tab"
\* device_serials: line.split('\t')[0] of every line that holds a tab
DeviceSerials(lines) ==
    LET kept == SelectSeq(lines, HasTab)
    IN  [i \in DOMAIN kept |-> kept[i].serial]

InitFastScan ==
    /\ max_workers = MaxWorkers
    /\ InitBatchADB
    /\ InitOrchestrator
    /\ InitDeviceManager({[s \in Serials |-> NoEntry]})
    /\ remover = NoRemoval
    /\ installer = NoInstall
    /\ fast_scan \in [state : {"output"},
                      adb : {Hang, Missing} \cup {Exit(0, lines) : lines \in ScanOutputs}]

\* parallel_device_scan(): the call is not inside a try, so a missing
\* binary or a timeout leaves the function as an exception
ParallelDeviceScan ==
    /\ fast_scan.state = "output"
    /\ LET result == subprocess_run(<<>>, 10, fast_scan.adb)
       IN  fast_scan' = IF result.kind # "completed"
                        THEN [state |-> "raised", adb |-> fast_scan.adb]
                        ELSE [state |-> "scanned", adb |-> fast_scan.adb,
                              stdout |-> result.stdout,
                              device_serials |-> DeviceSerials(result.stdout)]
    /\ UNCHANGED <<remover, installer>>
    /\ UNCHANGED registry
    /\ UNCHANGED batch
    /\ UNCHANGED orchestra

NextFastScan == ParallelDeviceScan

SpecFastScan == InitFastScan /\ [][NextFastScan]_vars

(***************************************************************************)
(* BloatwareRemover on one device.  Nothing is awaited that suspends       *)
(* (subprocess.run is called directly), so a removal is one step.          *)
(***************************************************************************)
TikTok == "com.zhiliaoapp.musically"
SuperProxy == "com.scheler.superproxy"
\* packages a device may hold
Packages ==
    {TikTok, SuperProxy, "com.whatsapp", "com.spotify.music",
     "com.android.systemui", "com.android.overlay.theme", "com.example.app"}
\* what `pm list packages -3` leaves out
SystemPackages == {"com.android.systemui", "com.android.overlay.theme"}
WHITELIST == {TikTok, SuperProxy}
\* the lists of config/bloatware.py and config/allowlist.py, on Packages
SAFE_TO_REMOVE == {TikTok, "com.whatsapp"}
DO_NOT_REMOVE == {"com.android.systemui"}
\* `pattern in package_lower` for some pattern of BLOATWARE_PATTERNS
MatchesBloatwarePattern == {"com.spotify.music"}
\* package_name.startswith(prefix) for some prefix of critical_prefixes
HasCriticalPrefix == {"com.android.overlay.theme"}
\* get_full_allowlist(include_optional=False, include_phone_farm=True)
get_full_allowlist == {"com.android.systemui", TikTok}

is_bloatware(package) ==
    \/ package \in SAFE_TO_REMOVE
    \/ package \in MatchesBloatwarePattern /\ package \notin DO_NOT_REMOVE
is_allowed(package, allowlist) ==
    package \in allowlist \/ package \in HasCriticalPrefix
should_remove(package, allowlist) == ~is_allowed(package, allowlist)

\* BloatwareToRemove without the whitelist test that comes first
BloatwareListed(all_packages) ==
    {package \in all_packages : package \in SAFE_TO_REMOVE \/ is_bloatware(package)}

\* bloatware_to_remove of remove_bloatware_from_list
BloatwareToRemove(all_packages) ==
    {package \in all_packages \ WHITELIST :
        package \in SAFE_TO_REMOVE \/ is_bloatware(package)}

\* packages_to_remove of remove_with_allowlist
NotAllowed(all_packages, allowlist) ==
    {package \in all_packages : should_remove(package, allowlist \cup WHITELIST)}

\* the result dict, the packages handed to `pm uninstall` and to
\* `pm disable-user`, and what uninstall_package added to removed_apps
Removal(mode, removed, failed, skipped, total, uninstalled, disabled, removed_apps) ==
    [state |-> "done", mode |-> mode, use_allowlist |-> remover.use_allowlist,
     packages |-> remover.packages,
     removed |-> removed, failed |-> failed, skipped |-> skipped, total |-> total,
     uninstalled |-> uninstalled, disabled |-> disabled, removed_apps |-> removed_apps]

\* get_all_packages / get_non_system_packages: the listing, or [] when the
\* command fails
Listings(packages) == {packages, {}}

InitRemover ==
    /\ max_workers = MaxWorkers
    /\ InitBatchADB
    /\ InitOrchestrator
    /\ InitDeviceManager({[s \in Serials |-> NoEntry]})
    /\ fast_scan = NoScan
    /\ installer = NoInstall
    /\ remover \in [state : {"ready"}, use_allowlist : BOOLEAN,
                    packages : {ps \in SUBSET Packages : Cardinality(ps) <= MaxPackages}]

RemoveBloatwareFromList ==
    /\ remover.state = "ready"
    /\ \E all_packages \in Listings(remover.packages) :
        LET to_remove == BloatwareToRemove(all_packages)
        IN  \E uninstalled \in SUBSET to_remove :
                remover' = Removal("remove_bloatware_from_list",
                                   uninstalled, to_remove \ uninstalled,
                                   all_packages \cap WHITELIST, Cardinality(to_remove),
                                   to_remove, {}, uninstalled)
    /\ UNCHANGED <<fast_scan, installer>>
    /\ UNCHANGED registry
    /\ UNCHANGED batch
    /\ UNCHANGED orchestra

RemoveWithAllowlist ==
    /\ remover.state = "ready"
    /\ \E all_packages \in Listings(remover.packages) :
        LET allowlist == IF remover.use_allowlist THEN get_full_allowlist ELSE {}
            to_remove == NotAllowed(all_packages, allowlist)
        IN  \E uninstalled \in SUBSET to_remove :
                \E disabled \in SUBSET (to_remove \ uninstalled) :
                    remover' = Removal("remove_with_allowlist",
                                       uninstalled \cup disabled,
                                       to_remove \ (uninstalled \cup disabled),
                                       all_packages \ to_remove, Cardinality(to_remove),
                                       to_remove, to_remove \ uninstalled, uninstalled)
    /\ UNCHANGED <<fast_scan, installer>>
    /\ UNCHANGED registry
    /\ UNCHANGED batch
    /\ UNCHANGED orchestra

RemoveAllNonSystemApps ==
    /\ remover.state = "ready"
    /\ \E packages \in Listings(remover.packages \ SystemPackages) :
        LET to_remove == packages \ WHITELIST
        IN  \E uninstalled \in SUBSET to_remove :
                remover' = Removal("remove_all_non_system_apps",
                                   uninstalled, to_remove \ uninstalled,
                                   packages \cap WHITELIST, Cardinality(packages),
                                   to_remove, {}, uninstalled)
    /\ UNCHANGED <<fast_scan, installer>>
    /\ UNCHANGED registry
    /\ UNCHANGED batch
    /\ UNCHANGED orchestra

NextRemover ==
    \/ RemoveBloatwareFromList
    \/ RemoveWithAllowlist
    \/ RemoveAllNonSystemApps

SpecRemover == InitRemover /\ [][NextRemover]_vars

(***************************************************************************)
(* LocalAPKInstaller.install_app_on_devices: one install_apk_on_device     *)
(* coroutine per device, gathered with return_exceptions=True.  A status   *)
(* callback, when given, is one that returns.                              *)
(***************************************************************************)
InstallTargets == {<<"A">>, <<"B">>, <<"A", "B">>, <<"B", "A">>}
\* what `adb install` exits with: return code and the text it prints
InstallOutputs ==
    {[returncode |-> 0, text |-> "Success"],
     [returncode |-> 1, text |-> "ALREADY_EXISTS"],
     [returncode |-> 1, text |-> "INSTALL_FAILED_INSUFFICIENT_STORAGE"],
     [returncode |-> 1, text |-> "INSTALL_FAILED_VERSION_DOWNGRADE"],
     [returncode |-> 1, text |-> "Failure"],
     [returncode |-> 0, text |-> ""]}

\* the result dict of install_apk_on_device
InstallResult(serial, success, already_installed, message) ==
    [success |-> success, already_installed |-> already_installed,
     message |-> message, device |-> serial]
NoInstallResult == [message |-> "none"]

\* the coroutine of one device before it has run
InstallTask(serial) ==
    [serial |-> serial, pc |-> "created", proc |-> "none", timed_out |-> FALSE,
     result |-> NoInstallResult]

\* the result after process.communicate() came back
ExitResult(serial, output) ==
    IF output.returncode = 0 /\ output.text = "Success"
    THEN InstallResult(serial, TRUE, FALSE, "Installation successful")
    ELSE IF output.text = "ALREADY_EXISTS"
    THEN InstallResult(serial, FALSE, TRUE, "App already installed")
    ELSE IF output.text = "INSTALL_FAILED_INSUFFICIENT_STORAGE"
    THEN InstallResult(serial, FALSE, FALSE, "Insufficient storage")
    ELSE IF output.text = "INSTALL_FAILED_VERSION_DOWNGRADE"
    THEN InstallResult(serial, FALSE, FALSE, "Version downgrade")
    ELSE InstallResult(serial, FALSE, FALSE, "Installation failed")

\* Killed that returns the timeout result without awaiting process.wait()
KilledNoWait(t) ==
    [t EXCEPT !.proc = "killed", !.timed_out = TRUE, !.pc = "done",
              !.result = InstallResult(t.serial, FALSE, FALSE, "Installation timeout")]

\* except asyncio.TimeoutError: process.kill(), then `await process.wait()`
Killed(t) == [t EXCEPT !.proc = "killed", !.timed_out = TRUE, !.pc = "wait"]

InitInstaller ==
    /\ max_workers = MaxWorkers
    /\ InitBatchADB
    /\ InitOrchestrator
    /\ InitDeviceManager({[s \in Serials |-> NoEntry]})
    /\ fast_scan = NoScan
    /\ remover = NoRemoval
    /\ installer \in [state : {"ready"}, devices : InstallTargets, apk_files : 0..MaxApks]

\* install_app_on_devices up to the gather
InstallAppOnDevices ==
    /\ installer.state = "ready"
    /\ installer' = [state |-> "gathering", devices |-> installer.devices,
                     apk_files |-> installer.apk_files,
                     tasks |-> [i \in DOMAIN installer.devices |->
                                    InstallTask(installer.devices[i])]]
    /\ UNCHANGED <<fast_scan, remover>>
    /\ UNCHANGED registry
    /\ UNCHANGED batch
    /\ UNCHANGED orchestra

InstallRuns(i, pc) ==
    /\ installer.state = "gathering"
    /\ i \in DOMAIN installer.tasks
    /\ installer.tasks[i].pc = pc

\* install_apk_on_device from its first line: no APK file, the app is
\* installed already, an exception (caught by `except Exception`), or the
\* install process is spawned and communicate() awaited
InstallBegin(i) ==
    /\ InstallRuns(i, "created")
    /\ LET t == installer.tasks[i]
       IN  IF installer.apk_files = 0
           THEN installer' = [installer EXCEPT !.tasks[i] =
                    [t EXCEPT !.pc = "done",
                              !.result = InstallResult(t.serial, FALSE, FALSE, "No APK files found")]]
           ELSE \/ installer' = [installer EXCEPT !.tasks[i] =
                    [t EXCEPT !.pc = "done",
                              !.result = InstallResult(t.serial, FALSE, TRUE, "App already installed")]]
                \/ installer' = [installer EXCEPT !.tasks[i] =
                    [t EXCEPT !.pc = "done",
                              !.result = InstallResult(t.serial, FALSE, FALSE, "Error")]]
                \/ installer' = [installer EXCEPT !.tasks[i] =
                    [t EXCEPT !.pc = "communicate", !.proc = "running"]]
    /\ UNCHANGED <<fast_scan, remover>>
    /\ UNCHANGED registry
    /\ UNCHANGED batch
    /\ UNCHANGED orchestra

\* the process ends within the 120 seconds
InstallExits(i) ==
    /\ InstallRuns(i, "communicate")
    /\ \E output \in InstallOutputs :
        LET t == installer.tasks[i]
        IN  installer' = [installer EXCEPT !.tasks[i] =
                [t EXCEPT !.pc = "done", !.proc = "exited",
                          !.result = ExitResult(t.serial, output)]]
    /\ UNCHANGED <<fast_scan, remover>>
    /\ UNCHANGED registry
    /\ UNCHANGED batch
    /\ UNCHANGED orchestra

\* wait_for expires: the process is killed and waited for, or kill() finds
\* it gone (ProcessLookupError) and the result is set at once
InstallTimeout(i) ==
    /\ InstallRuns(i, "communicate")
    /\ LET t == installer.tasks[i]
       IN  \/ installer' = [installer EXCEPT !.tasks[i] = Killed(t)]
           \/ installer' = [installer EXCEPT !.tasks[i] =
                [t EXCEPT !.proc = "exited", !.timed_out = TRUE, !.pc = "done",
                          !.result = InstallResult(t.serial, FALSE, FALSE, "Installation timeout")]]
    /\ UNCHANGED <<fast_scan, remover>>
    /\ UNCHANGED registry
    /\ UNCHANGED batch
    /\ UNCHANGED orchestra

\* process.wait() returns: the killed process is reaped
InstallReaped(i) ==
    /\ InstallRuns(i, "wait")
    /\ LET t == installer.tasks[i]
       IN  installer' = [installer EXCEPT !.tasks[i] =
                [t EXCEPT !.proc = "reaped", !.pc = "done",
                          !.result = InstallResult(t.serial, FALSE, FALSE, "Installation timeout")]]
    /\ UNCHANGED <<fast_scan, remover>>
    /\ UNCHANGED registry
    /\ UNCHANGED batch
    /\ UNCHANGED orchestra

\* every coroutine has returned: gather gives the results in device order
InstallGatherReturn ==
    /\ installer.state = "gathering"
    /\ \A i \in DOMAIN installer.tasks : installer.tasks[i].pc = "done"
    /\ installer' = [state |-> "returned", devices |-> installer.devices,
                     apk_files |-> installer.apk_files, tasks |-> installer.tasks,
                     results |-> [i \in DOMAIN installer.tasks |-> installer.tasks[i].result]]
    /\ UNCHANGED <<fast_scan, remover>>
    /\ UNCHANGED registry
    /\ UNCHANGED batch
    /\ UNCHANGED orchestra

NextInstaller ==
    \/ InstallAppOnDevices
    \/ \E i \in 1..Cardinality(Serials) : InstallBegin(i)
    \/ \E i \in 1..Cardinality(Serials) : InstallExits(i)
    \/ \E i \in 1..Cardinality(Serials) : InstallTimeout(i)
    \/ \E i \in 1..Cardinality(Serials) : InstallReaped(i)
    \/ InstallGatherReturn

SpecInstaller == InitInstaller /\ [][NextInstaller]_vars

(***************************************************************************)
(* Properties of the registry                                              *)
(***************************************************************************)
\* some connect_device / ensure_u2_connection coroutine on s is suspended
AttemptInFlight(s) == \E r \in BagToSet(task) : r.serial = s

\* C1: a scan_devices pass that enumerates a device whose status is
\* connected (whatever state the bridge reports for it) leaves its status
\* connected and its u2_device the same handle.
C1_ScanKeepsEnumeratedConnected ==
    [][\A s \in Serials :
        (/\ last'.op = "scan_devices"
         /\ s \in last'.plugged
         /\ devices[s].status = "connected")
        => (/\ devices'[s].status = "connected"
            /\ devices'[s].u2_device = devices[s].u2_device)]_vars

\* a scan has just enumerated a connected device that holds a handle
C1_Witness ==
    /\ last.op = "scan_devices"
    /\ \E s \in last.plugged \cap last.connected :
        devices[s].status = "connected" /\ devices[s].u2_device # None

\* C2: a scan_devices pass whose enumeration does not contain a device
\* whose status is connected sets its status to disconnected and its
\* u2_device to None.
C2_ScanMissDisconnects ==
    [][\A s \in Serials :
        (/\ last'.op = "scan_devices"
         /\ last'.ret = "list"
         /\ s \notin last'.plugged
         /\ devices[s].status = "connected")
        => (/\ devices'[s].status = "disconnected"
            /\ devices'[s].u2_device = None)]_vars

\* a scan has just missed a device that was connected
C2_Witness ==
    /\ last.op = "scan_devices"
    /\ last.ret = "list"
    /\ \E s \in last.connected \ last.plugged :
        devices[s].status = "disconnected" /\ devices[s].u2_device = None

\* C3: a device holds an automation handle only if its status is connected;
\* stated for the devices no connect attempt is in the middle of, so right
\* after connect_device or ensure_u2_connection has returned.
C3_HandleOnlyWhenConnected ==
    \A s \in Serials :
        (/\ devices[s] # NoDevice
         /\ ~AttemptInFlight(s)
         /\ devices[s].u2_device # None)
        => devices[s].status = "connected"

\* C4: connect_device on a device whose status is not "device" returns
\* False and leaves the device's record and the cache file unchanged.
C4_ConnectOnlyFromAuthorized ==
    [][\A s \in Serials :
        (/\ last'.op = "connect_device"
         /\ last'.step = "call"
         /\ last'.serial = s
         /\ devices[s].status # "device")
        => (/\ last'.ret = "False"
            /\ devices'[s] = devices[s]
            /\ cache_file' = cache_file)]_vars

\* connect_device has just refused a device that is not authorized
C4_Witness ==
    /\ last.op = "connect_device"
    /\ last.step = "call"
    /\ last.ret = "False"
    /\ devices[last.serial].status \in {"disconnected", "unauthorized", "offline", "connected", "error"}

(***************************************************************************)
(* Properties of BatchADB                                                  *)
(***************************************************************************)
Returned(kind) == call.kind = kind /\ call.state = "returned"

\* C5: the key set of the mapping a batch call returns is the set of the
\* serials passed in, whatever the per-device commands did.
C5_KeySetEqualsDevices ==
    call.state = "returned"
        => DOMAIN results = {call.devices[i] : i \in Positions}

\* a call on two serials has returned its mapping
C5_Witness ==
    /\ call.state = "returned"
    /\ Cardinality({call.devices[i] : i \in Positions}) = 2
    /\ Cardinality(DOMAIN results) = 2

C7_SuccessIffExitZero ==
    Returned("run_command_batch") =>
        \A i \in Positions :
            /\ coro[i].entry.success
                <=> (coro[i].result.spawned /\ coro[i].result.returncode = 0)
            /\ coro[i].adb = "exit0"
                => (coro[i].entry.success /\ coro[i].entry.returncode = 0)

\* C8: the subprocess.run invocations in flight on the pool's threads never
\* outnumber max_workers, however many serials the calls were given.
C8_AtMostMaxWorkersInFlight == Invocations <= max_workers

\* every thread is busy and a job waits in the queue
C8_Witness ==
    /\ Invocations = max_workers
    /\ queue # <<>>

\* C9: the entry of a device whose bridge command does not finish within the
\* timeout has success false and the timeout flag, and nothing the call
\* started is running when it returns.
C9_TimeoutFlagged ==
    Returned("run_command_batch") =>
        /\ \A i \in Positions :
            coro[i].adb = "hang"
                => (~coro[i].entry.success /\ coro[i].entry.timeout)
        /\ RunningJobs = {}
        /\ abandoned = 0

WaveSize(k) == plan.waves[k].batch_end - plan.waves[k].batch_start

\* C13: with batch size b and n authorized devices there is one wave when
\* b >= n and otherwise ceil(n/b) waves, each of b devices except that the
\* last holds the remainder; every device position is in exactly one wave;
\* 8 devices give one wave and 40 devices with batch 25 give 25 then 15.
C13_WavePartition ==
    plan.state = "planned" =>
        LET n == plan.device_count
            b == plan.batch_size
            w == plan.waves
        IN  /\ b >= n => Len(w) = 1
            /\ b < n =>
                /\ Len(w) = (n + b - 1) \div b
                /\ \A k \in 1..(Len(w) - 1) : WaveSize(k) = b
                /\ WaveSize(Len(w)) = n - b * (Len(w) - 1)
            /\ \A p \in 1..n :
                Cardinality({k \in DOMAIN w : p \in WavePositions(w[k])}) = 1
            /\ \A k \in DOMAIN w : WavePositions(w[k]) \subseteq 1..n
            /\ (n = 8 /\ plan.override = None) => Len(w) = 1
            /\ (n = 40 /\ b = 25) => (Len(w) = 2 /\ WaveSize(1) = 25 /\ WaveSize(2) = 15)

\* the plan for 40 devices in full mode: a wave of 25, then one of 15
C13_Witness ==
    /\ plan.state = "planned"
    /\ plan.device_count = 40
    /\ plan.override = None
    /\ plan.batch_size = 25
    /\ Len(plan.waves) = 2
    /\ WaveSize(1) = 25
    /\ WaveSize(2) = 15

\* attempts on s between their state check and their completion: tasks of
\* the wave and coroutines of direct callers suspended at an await
AttemptsInFlight(s) ==
    Cardinality({i \in DOMAIN wave : wave[i].serial = s /\ TaskAwaiting(wave[i])})
        + BagCardinality([r \in {q \in BagToSet(task) : q.serial = s} |-> task[r]])

\* C11: for every device, at most one connect_device / ensure_u2_connection
\* attempt is between its state check and its completion at any time, also
\* when connect_all_devices and other callers run concurrently.
C11_AttemptsSerialized == \A s \in Serials : AttemptsInFlight(s) <= 1

\* C14: a wave's tasks are created only when every task of the wave before
\* it has finished (returned, failed or been cancelled), and they are
\* created unstarted.
C14_WavesInSequence ==
    [][(conn.state = "gathering" /\ conn'.state = "gathering" /\ conn'.k = conn.k + 1)
        => /\ \A i \in DOMAIN wave : TaskDone(wave[i])
           /\ \A i \in DOMAIN wave' : wave'[i].pc = "created"]_vars

\* the second wave is being gathered and one of its tasks is under way
C14_Witness ==
    /\ conn.state = "gathering"
    /\ conn.k = 2
    /\ \E i \in DOMAIN wave : TaskAwaiting(wave[i])

\* C15: while a connection attempt of a connect_all_devices call is
\* unfinished or a wave is still to be gathered, the call has not written
\* the device cache, and the call writes it at most once.
C15_CacheWrittenAfterAllAttempts ==
    /\ (/\ conn.state \in {"gathering", "cancelling"}
        /\ \/ \E i \in DOMAIN wave : ~TaskDone(wave[i])
           \/ conn.k < Len(conn.waves))
        => conn.writes = 0
    /\ conn.state # "idle" => conn.writes <= 1

\* C16: when connect_all_devices has returned after at least one wave, the
\* cache file holds the (model, version) entry of every device of the
\* registry, in fast and in full mode, whatever the attempts' outcomes.
C16_CachePersistedOnReturn ==
    (conn.state = "returned" /\ conn.k >= 1) => cache_file = SavedCache(devices)

\* C17: a connect_device step at which establishing the handle or the info
\* probe raises sets the device's status to error, returns False and ends
\* the attempt without another try.
C17_RaiseMarksError ==
    [][\A s \in Serials :
        (/\ last'.op = "connect_device"
         /\ last'.serial = s
         /\ last'.step \in {"u2_connect", "info"}
         /\ last'.ret \notin {"await", "True"})
        => (/\ last'.ret = "False"
            /\ devices'[s].status = "error"
            /\ BagCardinality(task') = BagCardinality(task) - 1)]_vars

\* the info probe of a full-mode attempt has just raised
C17_Witness ==
    /\ last.op = "connect_device"
    /\ last.step = "info"
    /\ last.ret = "False"
    /\ devices[last.serial].status = "error"

\* authorized devices of the call whose status is connected, among the
\* first upto positions
ConnectedUpTo(upto) ==
    Cardinality({p \in 1..upto : devices[conn.authorized[p]].status = "connected"})

\* C18: a connect_all_devices call that ran a wave and was not cancelled
\* returns (it never raises), having attempted every authorized device once
\* whatever failed before it, and its return value is the number of devices
\* it connected.
C18_FailuresDoNotStopWaves ==
    /\ [][conn'.state = "raised" => conn.state \in {"cancelling", "raised"}]_vars
    /\ []((conn.state = "returned" /\ conn.k >= 1) =>
            /\ conn.attempted = conn.authorized
            /\ \A p \in DOMAIN conn.authorized :
                devices[conn.authorized[p]].status \in {"connected", "error"}
            /\ conn.ret = ConnectedUpTo(Len(conn.authorized)))

\* two waves of one device each: the first attempt failed, the second
\* connected, and the call returned 1
C18_Witness ==
    /\ conn.state = "returned"
    /\ Len(conn.waves) = 2
    /\ devices[conn.authorized[1]].status = "error"
    /\ devices[conn.authorized[2]].status = "connected"
    /\ conn.ret = 1

\* C19: once connect_all_devices is cancelled during a wave, every task of
\* the wave that has not finished has the cancellation requested, the call
\* ends by raising and only when all tasks have finished, and no further
\* wave is started.
C19_CancelPropagates ==
    /\ [](conn.state = "cancelling"
            => \A i \in DOMAIN wave : TaskDone(wave[i]) \/ wave[i].must_cancel)
    /\ [](conn.state = "raised" => \A i \in DOMAIN wave : TaskDone(wave[i]))
    /\ [][conn.state = "cancelling"
            => (/\ conn'.state \in {"cancelling", "raised"}
                /\ conn'.k = conn.k
                /\ DOMAIN wave' = DOMAIN wave
                /\ \A i \in DOMAIN wave : wave'[i].serial = wave[i].serial)]_vars

\* a cancelled call has raised and a task of its wave ended cancelled
C19_Witness ==
    /\ conn.state = "raised"
    /\ \E i \in DOMAIN wave : wave[i].pc = "cancelled"

\* waves whose gather is over
WavesCompleted ==
    IF conn.state = "returned" THEN Len(conn.waves) ELSE conn.k - 1

\* C20: with a progress callback, the callback has been invoked once per
\* completed wave with (devices connected so far, authorized devices); the
\* counts never decrease, never exceed the total, and the last one equals
\* the return value.
C20_ProgressPerWave ==
    (conn.state # "idle" /\ conn.callback /\ conn.k >= 1) =>
        LET progress == conn.progress
            total == Len(conn.authorized)
        IN  /\ Len(progress) = WavesCompleted
            /\ \A j \in DOMAIN progress :
                /\ progress[j][2] = total
                /\ progress[j][1] <= total
                /\ progress[j][1] = ConnectedUpTo(conn.waves[j].batch_end)
                /\ j > 1 => progress[j - 1][1] <= progress[j][1]
            /\ conn.state = "returned" => progress[Len(progress)][1] = conn.ret

\* two waves, both devices connected: the callback saw (1, 2) then (2, 2)
C20_Witness ==
    /\ conn.state = "returned"
    /\ conn.callback
    /\ conn.progress = <<<<1, 2>>, <<2, 2>>>>
    /\ conn.ret = 2

(***************************************************************************)
(* Status vocabulary, cache round trip, registry growth                    *)
(***************************************************************************)
\* C21: every device's status is one of disconnected, unauthorized,
\* authorized ("device"), connected and error; a serial seen for the first
\* time is authorized when the bridge reports it ready and unauthorized for
\* every other reported state.
C21_StatusVocabulary ==
    \A s \in Known(devices) :
        devices[s].status \in {"disconnected", "unauthorized", "device", "connected", "error"}

\* C22: a scan that enumerates a serial whose record is disconnected sets
\* the record's status to the state the bridge reports on that serial's
\* line, so a replugged authorized device is connectable again.
C22_ReplugReinstates ==
    /\ [](\A s \in Known(devices) :
            devices[s].status = "disconnected" =>
                \A line \in FullLines :
                    line.serial = s =>
                        LET merged == MergeLine(devices, line)
                        IN  /\ merged[s].status = line.status
                            /\ line.status = "device" => Connectable(merged[s].status))
    /\ [][\A s \in Serials :
            (/\ last'.op = "scan_devices"
             /\ last'.ret = "list"
             /\ s \in last'.plugged
             /\ devices[s] # NoDevice
             /\ devices[s].status = "disconnected") =>
                devices'[s].status \in SerialStates(s)]_vars

\* a cached (hence disconnected) record with a probed version that a scan
\* has just set back to "device"
C22_Witness ==
    /\ last.op = "scan_devices"
    /\ \E s \in last.plugged \ last.connected :
        /\ devices[s] # NoDevice
        /\ devices[s].status = "device"
        /\ devices[s].android_version # Unknown

\* C23: saving the cache and loading it in a fresh DeviceManager yields,
\* for every saved serial, the same model and Android version with status
\* disconnected and no automation handle.
C23_CacheRoundTrip ==
    LET reloaded == [s \in Serials |->
                        IF devices[s] = NoDevice THEN NoDevice
                        ELSE Device(devices[s].model, devices[s].android_version,
                                    "disconnected", None)]
    IN  /\ LoadedDevices(SavedCache(devices)) = reloaded
        /\ (last.op = "connect_device" /\ last.step = "info" /\ last.ret = "True") =>
                LoadedDevices(cache_file) = reloaded

\* right after a full-mode connection saved the cache: the connected record
\* with its handle reloads as disconnected, same model, version "13"
C23_Witness ==
    /\ last.op = "connect_device"
    /\ last.step = "info"
    /\ last.ret = "True"
    /\ \E s \in Known(devices) :
        /\ devices[s].status = "connected"
        /\ devices[s].u2_device # None
        /\ devices[s].android_version = <<"13">>
        /\ LoadedDevices(cache_file)[s] =
                Device(devices[s].model, <<"13">>, "disconnected", None)

\* C27: when the bridge is unreachable or its binary is missing,
\* scan_devices raises instead of returning an empty list.
C27_ScanRaisesWhenBridgeDown ==
    last.op = "scan_devices" => last.ret \in {"list", "raise"}

\* C30: the registry holds one record per identifier under that identifier;
\* no operation removes a record, so the set of known identifiers only
\* grows.
C30_KnownOnlyGrows ==
    [][Known(devices) \subseteq Known(devices')]_vars

\* a scan that did not enumerate a known serial: its record is still there
C30_Witness ==
    /\ last.op = "scan_devices"
    /\ last.ret = "list"
    /\ \E s \in Known(devices) : s \notin last.plugged /\ devices[s].status = "disconnected"

(***************************************************************************)
(* Connection parameters and concurrency cap                               *)
(***************************************************************************)
\* C25: optimize_device_connections(n) returns batch size 10 for every
\* n <= 10, 25 for 30 < n <= 50, 50 for 50 < n <= 100 and 75 for n > 100.
C25_OptimizeTable ==
    plan.state = "optimized" =>
        LET n == plan.device_count
            b == plan.params.batch_size
        IN  /\ n <= 10 => b = 10
            /\ (30 < n /\ n <= 50) => b = 25
            /\ (50 < n /\ n <= 100) => b = 50
            /\ n > 100 => b = 75

\* C26: for every device count n the batch size returned by
\* optimize_device_connections(n) equals the batch size connect_all_devices
\* takes from its own table for n authorized devices, before the fast-mode
\* doubling.
C26_OptimizeMatchesOrchestrator ==
    plan.state = "optimized" =>
        plan.params.batch_size = BatchSize(plan.device_count, None, FALSE)

\* C29: with an automatically chosen batch size no wave holds more than
\* max_concurrent_connections attempts, in fast and in full mode, whatever
\* the number of authorized devices.
C29_WaveWithinConcurrencyCap ==
    (plan.state = "planned" /\ plan.override = None) =>
        \A k \in DOMAIN plan.waves : WaveSize(k) <= max_concurrent_connections

(***************************************************************************)
(* Features on fast-connected devices                                      *)
(***************************************************************************)
\* C24: a feature operation on a connected device always finds the
\* automation handle, because a device connected in fast mode is upgraded
\* through ensure_u2_connection before the feature runs; the feature never
\* fails for lack of a handle.
C24_FeatureFindsHandle ==
    last.op = "_execute_shell" =>
        /\ devices[last.serial].u2_device # None
        /\ last.ret = "output"

(***************************************************************************)
(* Termination of a connection pass                                        *)
(***************************************************************************)
\* C28: every connect attempt finishes, connected or error, even when the
\* device never responds, since each call it makes is bounded by a
\* timeout; so every wave completes and connect_all_devices returns.
C28_ConnectAllReturns ==
    /\ \A i \in 1..Cardinality(Serials) :
        (conn.state = "gathering" /\ i \in DOMAIN wave /\ ~TaskDone(wave[i]))
            ~> (i \in DOMAIN wave /\ wave[i].pc = "done")
    /\ (conn.state = "gathering") ~> (conn.state = "returned")

(***************************************************************************)
(* Failed enumerations, scans during attempts, the lazy upgrade            *)
(***************************************************************************)
\* C31: a failed enumeration (the command raises, times out, or exits with
\* an error and prints no device line) never drops a live session: every
\* device that was connected before such a scan is still connected and
\* still holds its handle after it.
C31_FailedScanKeepsSessions ==
    [][(/\ last'.op = "scan_devices"
        /\ last'.ret = "[]" \/ last'.step = "exit_error") =>
            \A s \in Known(devices) :
                devices[s].status = "connected" => devices'[s] = devices[s]]_vars

\* C33: however scans interleave with connection attempts, once the
\* attempts on a device are over, a device that the latest enumeration did
\* not list (its record is disconnected since that scan) is not connected
\* and holds no handle: no step other than a scan takes a record out of
\* disconnected.
C33_AbsentStaysDisconnected ==
    [][\A s \in Known(devices) :
        (/\ devices[s].status = "disconnected"
         /\ last'.op # "scan_devices"
         /\ ~(\E r \in BagToSet(task') : r.serial = s)) =>
            /\ devices'[s].status # "connected"
            /\ devices'[s].u2_device = None]_vars

\* C34: ensure_u2_connection returns True only for a handle that passed the
\* info probe: after a call that returned False the device holds no handle,
\* so a later call probes again.
C34_FailedUpgradeLeavesNoHandle ==
    (last.op = "ensure_u2_connection" /\ last.ret = "False") =>
        devices[last.serial].u2_device = None

(***************************************************************************)
(* What a connection pass starts from and what it leaves                   *)
(***************************************************************************)
\* C32: connect_all_devices called on a freshly constructed registry, before
\* any scan_devices call, scans first, also when the registry was filled
\* from the disk cache, so the devices the bridge lists as authorized are
\* attempted.
C32_FreshRegistryIsScanned ==
    [][(/\ conn.state = "idle"
        /\ conn'.state # "idle"
        /\ devices = LoadedDevices(cache_file)) => conn'.scanned]_vars

\* the serials of a list of serials
SerialsOf(list) == {list[i] : i \in DOMAIN list}

\* C35: a device in error state that a scan enumerates takes the state the
\* bridge reports; when that state is authorized the next
\* connect_all_devices call attempts it again, so it does not stay in error
\* while plugged in and authorized.
C35_ErrorClearedByScan ==
    /\ \A s \in Known(devices) :
        devices[s].status = "error" =>
            \A lines \in FleetEnumerations :
                \A i \in DOMAIN lines :
                    lines[i].serial = s =>
                        LET scanned == ScanResult(devices, lines)
                        IN  /\ scanned[s].status = lines[i].status
                            /\ lines[i].status = "device" => s \in SerialsOf(Authorized(scanned))
    /\ conn.state = "gathering" =>
        \A s \in Known(devices) :
            (devices[s].status = "device" /\ devices[s].u2_device # None) =>
                s \in SerialsOf(conn.authorized)

\* a device whose probe failed in an earlier pass (it kept the handle of
\* that pass) is authorized again after a scan and is in the wave of the
\* next pass
C35_Witness ==
    /\ conn.state = "gathering"
    /\ \E i \in DOMAIN wave :
        /\ wave[i].pc = "created"
        /\ devices[wave[i].serial].status = "device"
        /\ devices[wave[i].serial].u2_device # None

\* C36: when connect_all_devices returns n, exactly n of the devices that
\* were authorized at the start of the call are connected, every other
\* attempted device is in error state, and no device that was not
\* authorized at the start has changed status.
C36_ReturnCountsConnected ==
    /\ [](conn.state = "returned" =>
            /\ Cardinality({s \in SerialsOf(conn.authorized) :
                                devices[s].status = "connected"}) = conn.ret
            /\ \A s \in SerialsOf(conn.attempted) :
                    devices[s].status \in {"connected", "error"})
    /\ [][conn.state = "gathering" =>
            \A s \in Serials \ SerialsOf(conn.authorized) :
                devices'[s] = devices[s]]_vars

\* a full-mode pass on two authorized devices returned 1: one is connected,
\* the other in error
C36_Witness ==
    /\ conn.state = "returned"
    /\ ~conn.fast_mode
    /\ conn.ret = 1
    /\ Len(conn.authorized) = 2
    /\ \E s \in SerialsOf(conn.authorized) : devices[s].status = "error"

(***************************************************************************)
(* Fast scan, bloatware removal                                            *)
(***************************************************************************)
\* C37: for the same enumeration output parallel_device_scan returns exactly
\* the ids scan_devices records as enumerated, one per device line, whether
\* id and state are separated by a tab or by spaces.
C37_FastScanMatchesScan ==
    fast_scan.state = "scanned" =>
        /\ SerialsOf(fast_scan.device_serials) = PluggedSerials(fast_scan.stdout)
        /\ Len(fast_scan.device_serials) = Cardinality(PluggedSerials(fast_scan.stdout))

\* C38: in every removal mode a whitelisted package (TikTok, Super Proxy)
\* is never handed to uninstall or disable, also when it is in the
\* safe-to-remove list, and is never reported as removed.
C38_WhitelistNeverRemoved ==
    remover.state = "done" =>
        /\ remover.uninstalled \cap WHITELIST = {}
        /\ remover.disabled \cap WHITELIST = {}
        /\ remover.removed \cap WHITELIST = {}
        /\ remover.removed_apps \cap WHITELIST = {}
        /\ remover.failed \cap WHITELIST = {}

\* a list-based removal on a device holding TikTok (which is also in
\* SAFE_TO_REMOVE) and WhatsApp: WhatsApp was removed, TikTok skipped
C38_Witness ==
    /\ remover.state = "done"
    /\ remover.mode = "remove_bloatware_from_list"
    /\ TikTok \in remover.packages
    /\ TikTok \in SAFE_TO_REMOVE
    /\ TikTok \in remover.skipped
    /\ "com.whatsapp" \in remover.removed

(***************************************************************************)
(* Installation timeout                                                    *)
(***************************************************************************)
\* C39: when an installation exceeds its timeout the install process is
\* killed and reaped before install_apk_on_device returns, the result has
\* success false and message "Installation timeout", and the installations
\* on the other devices of the call still end with their own results.
C39_TimeoutKillsAndReports ==
    installer.state \in {"gathering", "returned"} =>
        /\ \A i \in DOMAIN installer.tasks :
            LET t == installer.tasks[i]
            IN  /\ (t.timed_out /\ t.pc = "done") =>
                        /\ t.proc \in {"reaped", "exited"}
                        /\ ~t.result.success
                        /\ t.result.message = "Installation timeout"
                /\ (t.pc = "done" /\ t.result # NoInstallResult) =>
                        t.result.device = installer.devices[i]
        /\ installer.state = "returned" =>
            /\ Len(installer.results) = Len(installer.devices)
            /\ \A i \in DOMAIN installer.results :
                /\ installer.results[i] = installer.tasks[i].result
                /\ installer.results[i].device = installer.devices[i]
                /\ installer.tasks[i].proc \notin {"running", "killed"}

\* two devices: the first installation timed out and its process was
\* reaped, the second one succeeded
C39_Witness ==
    /\ installer.state = "returned"
    /\ Len(installer.devices) = 2
    /\ installer.tasks[1].timed_out
    /\ installer.tasks[1].proc = "reaped"
    /\ installer.results[1].message = "Installation timeout"
    /\ installer.results[2].success

====
